---- MODULE Spec2Model ----
(***************************************************************************)
(* Model of the `shared` crate of rusty-rift: the generational handle      *)
(* pool (pool.rs), the collision layer matrix (physics/collision.rs) and   *)
(* the physics world that stores its bodies in a Pool (physics_world.rs).  *)
(*                                                                         *)
(* Rust's Option<T> is modelled as a sequence of length 0 or 1:            *)
(*   None = << >>,  Some(v) = << v >>.                                     *)
(* Vec<T> is a sequence; a 0-based Rust index i is element i + 1.          *)
(***************************************************************************)
EXTENDS Integers, Sequences, FiniteSets, TLC

\* ---------------------------------------------------------------- bounds
\* Largest number of slots a pool grows to.
MaxSlots == 2
\* Pool<i32> payloads are drawn from 1..MaxValue.
MaxValue == 2
\* Width in bits of the generation counter (u32 in the source, scaled down
\* so that wrapping_add wraps within the explored runs).
GenBits == 2

\* Largest number of bodies the physics world is given.
MaxBodies == 2
\* Number of fractional bits of the fixed-point grid that stands for f32.
FracBits == 6
\* Largest number of bodies in a world that is stepped, and of steps taken.
MaxStepBodies == 3
MaxSteps == 2

GenMod == 2 ^ GenBits
Values == 1..MaxValue

None == << >>
Some(v) == << v >>

\* The element of a one-element set.  the({ e(x) : x \in { v } }) is e(v) with
\* v evaluated once, which is how the loops below hand their state on.
the(S) == CHOOSE x \in S : TRUE
\* An index-out-of-bounds panic of a `vec[i]` expression.
Panic == << -1, -1 >>

\* Faulty wrapping_add: a sum that wraps to 0 is replaced by 1, as if 0 were
\* kept for "no generation".
wrapping_add_skipping_zero(g, n) == IF (g + n) % GenMod = 0 THEN 1 ELSE (g + n) % GenMod

\* u32::wrapping_add at the model's width.
wrapping_add(g, n) == (g + n) % GenMod

\* ---------------------------------------------------------------- pool.rs
PoolIndex(i, g) == [index |-> i, generation |-> g]

\* Pool::new / Pool::with_capacity: three empty vectors.
new == [elements |-> << >>, generations |-> << >>, free_slots |-> << >>]

\* Faulty len: counts every slot, the free ones included.
len_total(p) == Len(p.elements)

\* Pool::len
len(p) == Len(p.elements) - Len(p.free_slots)

\* Faulty push: never looks at the free list, always appends a slot.
push_append_only(p, element) ==
    [pool |-> [elements |-> Append(p.elements, Some(element)),
               generations |-> Append(p.generations, 1),
               free_slots |-> p.free_slots],
     handle |-> PoolIndex(Len(p.elements), 1)]

\* Pool::push, as [pool |-> the pool afterwards, handle |-> the returned PoolIndex].
push(p, element) ==
    IF p.free_slots # << >>
    THEN LET index == p.free_slots[Len(p.free_slots)]
             generation == wrapping_add(p.generations[index + 1], 1)
         IN  [pool |-> [elements |-> [p.elements EXCEPT ![index + 1] = Some(element)],
                        generations |-> [p.generations EXCEPT ![index + 1] = generation],
                        free_slots |-> SubSeq(p.free_slots, 1, Len(p.free_slots) - 1)],
              handle |-> PoolIndex(index, generation)]
    ELSE LET index == Len(p.elements)
         IN  [pool |-> [elements |-> Append(p.elements, Some(element)),
                        generations |-> Append(p.generations, 1),
                        free_slots |-> p.free_slots],
              handle |-> PoolIndex(index, 1)]

\* Pool::get: Option<&T> (or Panic when generations[i] is out of bounds).
get(p, index) ==
    IF index.index < Len(p.elements)
    THEN IF index.index >= Len(p.generations)
         THEN Panic
         ELSE IF p.generations[index.index + 1] = index.generation
              THEN p.elements[index.index + 1]
              ELSE None
    ELSE None

\* Pool::get_mut: the same lookup as get, handing out a mutable reference.
get_mut(p, index) ==
    IF index.index < Len(p.elements)
    THEN IF index.index >= Len(p.generations)
         THEN Panic
         ELSE IF p.generations[index.index + 1] = index.generation
              THEN p.elements[index.index + 1]
              ELSE None
    ELSE None

\* `*x = v` through the reference get_mut returned (no-op when it returned None).
write_mut(p, index, v) ==
    IF Len(get_mut(p, index)) = 1
    THEN [p EXCEPT !.elements[index.index + 1] = Some(v)]
    ELSE p

\* Faulty remove: no generation check, any in-range handle frees its slot.
remove_unchecked(p, index) ==
    IF index.index < Len(p.elements)
    THEN [pool |-> [elements |-> [p.elements EXCEPT ![index.index + 1] = None],
                    generations |-> [p.generations EXCEPT
                                       ![index.index + 1] = wrapping_add(p.generations[index.index + 1], 1)],
                    free_slots |-> Append(p.free_slots, index.index)],
          out |-> p.elements[index.index + 1]]
    ELSE [pool |-> p, out |-> None]

\* Faulty remove: takes the value out with Vec::swap_remove semantics, moving
\* the last slot's value into the vacated slot.
remove_swap(p, index) ==
    IF index.index < Len(p.elements) /\ p.generations[index.index + 1] = index.generation
    THEN LET last == Len(p.elements)
         IN  [pool |-> [elements |-> [[p.elements EXCEPT ![index.index + 1] = p.elements[last]]
                                         EXCEPT ![last] = None],
                        generations |-> [p.generations EXCEPT
                                           ![index.index + 1] = wrapping_add(p.generations[index.index + 1], 1)],
                        free_slots |-> Append(p.free_slots, index.index)],
              out |-> p.elements[index.index + 1]]
    ELSE [pool |-> p, out |-> None]

\* Pool::remove, as [pool |-> the pool afterwards, out |-> the returned Option<T>].
remove(p, index) ==
    IF index.index < Len(p.elements)
    THEN IF index.index >= Len(p.generations)
         THEN [pool |-> p, out |-> Panic]
         ELSE LET generation == p.generations[index.index + 1]
              IN  IF generation = index.generation
                  THEN [pool |-> [elements |-> [p.elements EXCEPT ![index.index + 1] = None],
                                  generations |-> [p.generations EXCEPT
                                                     ![index.index + 1] = wrapping_add(generation, 1)],
                                  free_slots |-> Append(p.free_slots, index.index)],
                        out |-> p.elements[index.index + 1]]
                  ELSE [pool |-> p, out |-> None]
    ELSE [pool |-> p, out |-> None]

Min(a, b) == IF a <= b THEN a ELSE b

\* The filter_map pipeline of Pool::iter: elements zipped with generations,
\* enumerated from slot i (0-based) on, empty slots dropped.
RECURSIVE iter_from(_, _)
iter_from(p, i) ==
    IF i >= Min(Len(p.elements), Len(p.generations))
    THEN << >>
    ELSE LET opt == p.elements[i + 1]
             rest == iter_from(p, i + 1)
         IN  IF opt = None
             THEN rest
             ELSE << [handle |-> PoolIndex(i, p.generations[i + 1]), value |-> opt[1]] >> \o rest

\* Faulty iter: enumerate() applied after filter_map, so the handle's index
\* counts live values instead of slots.
iter_enumerate_last(p) ==
    LET it == iter_from(p, 0)
    IN  [k \in 1..Len(it) |->
            [handle |-> PoolIndex(k - 1, it[k].handle.generation), value |-> it[k].value]]

\* Pool::iter: the sequence of (PoolIndex, &T) it yields.
iter(p) == iter_from(p, 0)

\* The filter_map pipeline of Pool::iter_mut (elements.iter_mut() zipped with
\* generations), from slot i on.
RECURSIVE iter_mut_from(_, _)
iter_mut_from(p, i) ==
    IF i >= Min(Len(p.elements), Len(p.generations))
    THEN << >>
    ELSE LET opt == p.elements[i + 1]
             rest == iter_mut_from(p, i + 1)
         IN  IF opt = None
             THEN rest
             ELSE << [handle |-> PoolIndex(i, p.generations[i + 1]), value |-> opt[1]] >> \o rest

\* Pool::iter_mut: the sequence of (PoolIndex, &mut T) it yields.
iter_mut(p) == iter_mut_from(p, 0)

\* ---------------------------------------------------------------- physics/collision.rs
Layers == { "Environment", "Player", "PlayerProjectile", "Enemy", "EnemyProjectile" }

\* `layer as u8`: the discriminants of the #[repr(C)] enum, in declaration order.
layer_as_u8(layer) ==
    CASE layer = "Environment" -> 0
      [] layer = "Player" -> 1
      [] layer = "PlayerProjectile" -> 2
      [] layer = "Enemy" -> 3
      [] layer = "EnemyProjectile" -> 4

\* Faulty collides_with: matches (self, other) as given, without ordering the pair.
collides_with_unordered(self, other) ==
    CASE << self, other >> = << "Player", "PlayerProjectile" >> -> FALSE
      [] << self, other >> = << "Enemy", "EnemyProjectile" >> -> FALSE
      [] OTHER -> TRUE

\* Faulty collides_with: the exception table lists the projectile pairs crosswise.
collides_with_crossed(self, other) ==
    LET layer_pair == IF layer_as_u8(self) <= layer_as_u8(other)
                      THEN << self, other >>
                      ELSE << other, self >>
    IN  CASE layer_pair = << "Player", "EnemyProjectile" >> -> FALSE
          [] layer_pair = << "PlayerProjectile", "Enemy" >> -> FALSE
          [] OTHER -> TRUE

\* CollisionLayer::collides_with
collides_with(self, other) ==
    LET layer_pair == IF layer_as_u8(self) <= layer_as_u8(other)
                      THEN << self, other >>
                      ELSE << other, self >>
    IN  CASE layer_pair = << "Player", "PlayerProjectile" >> -> FALSE
          [] layer_pair = << "Enemy", "EnemyProjectile" >> -> FALSE
          [] OTHER -> TRUE

\* CollisionShape::Circle { radius }
Circle(radius) == [radius |-> radius]

\* ---------------------------------------------------------------- f32 and glam::Vec2
\* An f32 coordinate, length or radius is held as an integer count of
\* 1/Fixed world units, so that halving a penetration is exact while the
\* count stays even; a Vec2 is << x, y >>.  A unit normal holds plain
\* integers.  Where a value of the source is not on this grid (the root of a
\* non-square, a normal with a fractional component, half of an odd count,
\* a dt that does not divide), the operators below truncate and the
\* predicates named ..._exact are false.
Fixed == 2 ^ FracBits

\* The f32 of w world units.
fx(w) == w * Fixed

\* Vec2::ZERO
ZERO == << 0, 0 >>

\* Vec2 + Vec2
vec_add(a, b) == << a[1] + b[1], a[2] + b[2] >>

\* Vec2 - Vec2
vec_sub(a, b) == << a[1] - b[1], a[2] - b[2] >>

\* Faulty negation: the vector comes back as it is.
vec_neg_identity(a) == a

\* -Vec2
vec_neg(a) == << -a[1], -a[2] >>

\* f32 * Vec2, the Vec2 being a unit normal.
scale(s, normal) == << s * normal[1], s * normal[2] >>

\* Faulty Vec2 * dt: dt is taken to be one second.
mul_dt_unit(v, dt) == v

\* Vec2 * dt, dt being the f32 nearest num/den seconds.
mul_dt(v, dt) == << (v[1] * dt.num) \div dt.den, (v[2] * dt.num) \div dt.den >>

mul_dt_exact(v, dt) == (v[1] * dt.num) % dt.den = 0 /\ (v[2] * dt.num) % dt.den = 0

\* Vec2::distance_squared.  A squared length of 2^30 or more is held as 2^30:
\* it is only ever compared with the square of a sum of two radii, which is
\* smaller.
distance_squared(a, b) ==
    LET dx == a[1] - b[1]
        dy == a[2] - b[2]
    IN  IF dx >= 2 ^ 15 \/ -dx >= 2 ^ 15 \/ dy >= 2 ^ 15 \/ -dy >= 2 ^ 15
        THEN 2 ^ 30
        ELSE Min(dx * dx + dy * dy, 2 ^ 30)

\* The largest r in lo..hi with r * r <= n.
RECURSIVE sqrt_between(_, _, _)
sqrt_between(n, lo, hi) ==
    IF lo >= hi
    THEN lo
    ELSE the({ IF mid * mid <= n
               THEN sqrt_between(n, mid, hi)
               ELSE sqrt_between(n, lo, mid - 1) : mid \in { (lo + hi + 1) \div 2 } })

\* f32::sqrt of a squared length below 2^30.
sqrt(n) == sqrt_between(n, 0, 2 ^ 15)

\* Vec2::normalize_or_zero: v scaled by the reciprocal of its length, ZERO
\* when that reciprocal is not finite.
normalize_or_zero(v) ==
    LET length == sqrt(distance_squared(v, ZERO))
    IN  IF length > 0 THEN << v[1] \div length, v[2] \div length >> ELSE ZERO

normalize_exact(v) ==
    LET length == sqrt(distance_squared(v, ZERO))
    IN  /\ length * length = distance_squared(v, ZERO)
        /\ length > 0 => (v[1] % length = 0 /\ v[2] % length = 0)

\* ---------------------------------------------------------------- physics/collision.rs, shapes
\* CollisionShape::get_local_abb, as << min, max >>.
get_local_abb(shape) == << << -shape.radius, -shape.radius >>, << shape.radius, shape.radius >> >>

\* CollisionShape::get_aabb, as << min, max >>.
get_aabb(shape, position) ==
    LET local == get_local_abb(shape)
    IN  << vec_add(position, local[1]), vec_add(position, local[2]) >>

\* Faulty get_overlap: coincident centres are not set apart from the other
\* overlaps.
get_overlap_without_zero_test(shape, position, other, other_position) ==
    LET min_distance == shape.radius + other.radius
        d2 == distance_squared(position, other_position)
    IN  IF min_distance * min_distance > d2
        THEN [penetration |-> min_distance - sqrt(d2),
              normal |-> normalize_or_zero(vec_sub(other_position, position))]
        ELSE [penetration |-> 0, normal |-> ZERO]

\* CollisionShape::get_overlap, as [penetration, normal].
get_overlap(shape, position, other, other_position) ==
    LET min_distance == shape.radius + other.radius
        d2 == distance_squared(position, other_position)
    IN  IF d2 > 0 /\ min_distance * min_distance > d2
        THEN [penetration |-> min_distance - sqrt(d2),
              normal |-> normalize_or_zero(vec_sub(other_position, position))]
        ELSE [penetration |-> 0, normal |-> ZERO]

\* Whether get_overlap's result is on the grid of representable values.
get_overlap_exact(shape, position, other, other_position) ==
    LET min_distance == shape.radius + other.radius
        d2 == distance_squared(position, other_position)
    IN  (d2 > 0 /\ min_distance * min_distance > d2) =>
            normalize_exact(vec_sub(other_position, position))

\* ---------------------------------------------------------------- physics/physics_world.rs
\* struct Body, built from a BodySettings as create_rigid_body does.
Body(settings) ==
    [position |-> settings.position,
     velocity |-> settings.velocity,
     layer |-> settings.layer,
     shape |-> settings.shape,
     contacts |-> IF settings.listen_to_contact_events THEN Some(<< >>) ELSE None]

\* Faulty create_rigid_body: every body gets a contact buffer.
create_rigid_body_always_listening(b, settings) ==
    push(b, [Body(settings) EXCEPT !.contacts = Some(<< >>)])

\* PhysicsWorld::create_rigid_body, as [pool |-> bodies afterwards, handle |-> the BodyId].
create_rigid_body(b, settings) == push(b, Body(settings))

\* PhysicsWorld::get_state
get_state(b, id) ==
    LET o == get(b, id)
    IN  IF Len(o) = 1 THEN Some([position |-> o[1].position, velocity |-> o[1].velocity]) ELSE o

\* PhysicsWorld::get_shape
get_shape(b, id) ==
    LET o == get(b, id)
    IN  IF Len(o) = 1 THEN Some(o[1].shape) ELSE o

\* PhysicsWorld::get_contacts: Some(slice) only for a live, listening body.
get_contacts(b, id) ==
    LET o == get(b, id)
    IN  IF Len(o) = 1 THEN o[1].contacts ELSE o

\* PhysicsWorld::get_layer
get_layer(b, id) ==
    LET o == get(b, id)
    IN  IF Len(o) = 1 THEN Some(o[1].layer) ELSE o

\* PhysicsWorld::set_position
set_position(b, id, position) ==
    IF Len(get_mut(b, id)) = 1
    THEN write_mut(b, id, [get_mut(b, id)[1] EXCEPT !.position = position])
    ELSE b

\* PhysicsWorld::set_velocity
set_velocity(b, id, velocity) ==
    IF Len(get_mut(b, id)) = 1
    THEN write_mut(b, id, [get_mut(b, id)[1] EXCEPT !.velocity = velocity])
    ELSE b

\* PhysicsWorld::set_layer
set_layer(b, id, layer) ==
    IF Len(get_mut(b, id)) = 1
    THEN write_mut(b, id, [get_mut(b, id)[1] EXCEPT !.layer = layer])
    ELSE b

\* PhysicsWorld::set_shape
set_shape(b, id, shape) ==
    IF Len(get_mut(b, id)) = 1
    THEN write_mut(b, id, [get_mut(b, id)[1] EXCEPT !.shape = shape])
    ELSE b

\* ---------------------------------------------------------------- the uniform grid
\* const GRID_CELL_SIZE: f32 = 160.0
GRID_CELL_SIZE == 160

\* const NUM_SIMULATION_ITERATIONS: u32 = 4
NUM_SIMULATION_ITERATIONS == 4

Max(a, b) == IF a >= b THEN a ELSE b

\* Faulty cell index: the quotient is truncated toward zero instead of floored.
cell_floor_truncating(x) ==
    IF x < 0
    THEN -((-x) \div (GRID_CELL_SIZE * Fixed))
    ELSE x \div (GRID_CELL_SIZE * Fixed)

\* (x / GRID_CELL_SIZE).floor() as i32
cell_floor(x) == x \div (GRID_CELL_SIZE * Fixed)

\* Faulty for_grid_cells_in_aabb: f is called with the cell of the minimum
\* corner only.
for_grid_cells_first_only(aabb_min, aabb_max) ==
    << << cell_floor(Min(aabb_min[1], aabb_max[1])), cell_floor(Min(aabb_min[2], aabb_max[2])) >> >>

\* for_grid_cells_in_aabb: the cells f is called with, in call order (rows of
\* increasing cy, each by increasing cx).
for_grid_cells_in_aabb(aabb_min, aabb_max) ==
    LET min_cell_x == cell_floor(Min(aabb_min[1], aabb_max[1]))
        min_cell_y == cell_floor(Min(aabb_min[2], aabb_max[2]))
        max_cell_x == cell_floor(Max(aabb_min[1], aabb_max[1]))
        max_cell_y == cell_floor(Max(aabb_min[2], aabb_max[2]))
        width == max_cell_x - min_cell_x + 1
        height == max_cell_y - min_cell_y + 1
    IN  [k \in 1..(width * height) |->
            << min_cell_x + ((k - 1) % width), min_cell_y + ((k - 1) \div width) >>]

\* BTreeMap::new()
EmptyGrid == [cell \in {} |-> << >>]

\* cell_bodies.contains(&id)
contains(cell_bodies, id) == \E k \in 1..Len(cell_bodies) : cell_bodies[k] = id

\* The closure build_grid passes to for_grid_cells_in_aabb, run on one cell:
\* entry(cell_index).or_default(), then push body_id unless it is there.
register_in(g, cell_index, body_id) ==
    LET cell_bodies == IF cell_index \in DOMAIN g THEN g[cell_index] ELSE << >>
    IN  [c \in DOMAIN g \cup {cell_index} |->
            IF c # cell_index
            THEN g[c]
            ELSE IF contains(cell_bodies, body_id)
            THEN cell_bodies
            ELSE Append(cell_bodies, body_id)]

\* The closure run on each cell of cells in turn.
RECURSIVE register(_, _, _)
register(g, cells, body_id) ==
    IF cells = << >>
    THEN g
    ELSE the({ register(registered, Tail(cells), body_id) :
               registered \in { register_in(g, Head(cells), body_id) } })

\* The loop of build_grid over the items of bodies.iter().
RECURSIVE build_grid_from(_, _)
build_grid_from(g, items) ==
    IF items = << >>
    THEN g
    ELSE the({ build_grid_from(registered, Tail(items)) :
               registered \in
                   { the({ register(g, for_grid_cells_in_aabb(extent[1], extent[2]),
                                    Head(items).handle) :
                           extent \in { get_aabb(Head(items).value.shape,
                                                 Head(items).value.position) } }) } })

\* PhysicsWorld::build_grid: the grid afterwards.
build_grid(b) == build_grid_from(EmptyGrid, iter(b))

\* Ord of (i32, i32), the key order of the BTreeMap.
cell_le(c, d) == c[1] < d[1] \/ (c[1] = d[1] /\ c[2] <= d[2])

\* The keys of cells in BTreeMap order.
RECURSIVE sorted_cells(_)
sorted_cells(cells) ==
    IF cells = {}
    THEN << >>
    ELSE the({ << first >> \o sorted_cells(rest) :
               first \in { c \in cells : \A d \in cells : cell_le(c, d) },
               rest \in { { c \in cells : \E d \in cells : ~cell_le(c, d) } } })

\* Faulty inner loops of get_collision_pairs: the layers are not consulted.
RECURSIVE cell_pairs_unfiltered(_, _, _, _)
cell_pairs_unfiltered(b, cell_bodies, i, j) ==
    IF i >= Len(cell_bodies)
    THEN << >>
    ELSE IF j >= Len(cell_bodies)
    THEN cell_pairs_unfiltered(b, cell_bodies, i + 1, i + 2)
    ELSE LET body_i == cell_bodies[i + 1]
             body_j == cell_bodies[j + 1]
         IN  (IF body_i.index < body_j.index THEN << << body_i, body_j >> >> ELSE << >>)
             \o cell_pairs_unfiltered(b, cell_bodies, i, j + 1)

\* The two inner loops of get_collision_pairs over one cell, from (i, j) on.
RECURSIVE cell_pairs(_, _, _, _)
cell_pairs(b, cell_bodies, i, j) ==
    IF i >= Len(cell_bodies)
    THEN << >>
    ELSE IF j >= Len(cell_bodies)
    THEN cell_pairs(b, cell_bodies, i + 1, i + 2)
    ELSE LET body_i == cell_bodies[i + 1]
             body_j == cell_bodies[j + 1]
             b1 == get(b, body_i)[1]
             b2 == get(b, body_j)[1]
         IN  (IF collides_with(b1.layer, b2.layer) /\ body_i.index < body_j.index
              THEN << << body_i, body_j >> >>
              ELSE << >>)
             \o cell_pairs(b, cell_bodies, i, j + 1)

\* The outer loop of get_collision_pairs over grid.values().
RECURSIVE pairs_of_cells(_, _, _)
pairs_of_cells(b, g, cells) ==
    IF cells = << >>
    THEN << >>
    ELSE cell_pairs(b, g[Head(cells)], 0, 1) \o pairs_of_cells(b, g, Tail(cells))

\* PhysicsWorld::get_collision_pairs
get_collision_pairs(b, g) ==
    the({ pairs_of_cells(b, g, cells) : cells \in { sorted_cells(DOMAIN g) } })

\* ---------------------------------------------------------------- step_simulation
\* struct ContactEvent
ContactEvent(other, penetration, normal) ==
    [other |-> other, penetration |-> penetration, normal |-> normal]

\* Faulty correct: the correction is applied twice.
correct_twice(body, correction) ==
    [body EXCEPT !.position = vec_add(vec_add(@, correction), correction)]

\* Faulty correct: the correction is added to the velocity as well.
correct_with_velocity(body, correction) ==
    [body EXCEPT !.position = vec_add(@, correction), !.velocity = vec_add(@, correction)]

\* Body::correct
correct(body, correction) == [body EXCEPT !.position = vec_add(@, correction)]

\* contacts.push(event) under `if let Some(contacts) = &mut body.contacts`.
record_contact(body, event) ==
    IF Len(body.contacts) = 1
    THEN [body EXCEPT !.contacts = Some(Append(@[1], event))]
    ELSE body

\* Faulty integration of one body: its contact buffer is left as it is.
integrate_keeping_contacts(body, dt) ==
    [body EXCEPT !.position = vec_add(@, mul_dt(body.velocity, dt))]

\* The body of the first loop of step_simulation: position += velocity * dt,
\* and the contact buffer, if any, is cleared.
integrate(body, dt) ==
    [body EXCEPT !.position = vec_add(@, mul_dt(body.velocity, dt)),
                 !.contacts = IF Len(@) = 1 THEN Some(<< >>) ELSE @]

\* The first loop of step_simulation, over the items of bodies.iter_mut().
RECURSIVE integrate_all(_, _, _)
integrate_all(b, items, dt) ==
    IF items = << >>
    THEN b
    ELSE the({ integrate_all(moved, Tail(items), dt) :
               moved \in { write_mut(b, Head(items).handle,
                                     integrate(Head(items).value, dt)) } })

\* Faulty corrections: the first body is taken to be immovable and the second
\* gets its half only.
apply_correction_to_second(b, pair, correction) ==
    write_mut(b, pair[2], correct(get_mut(b, pair[2])[1], correction))

\* Faulty corrections: the first body's correction is not negated.
apply_correction_same_way(b, pair, correction) ==
    the({ write_mut(once, pair[2], correct(get_mut(once, pair[2])[1], correction)) :
          once \in { write_mut(b, pair[1], correct(get_mut(b, pair[1])[1], correction)) } })

\* body1.correct(-correction); body2.correct(correction)
apply_correction(b, pair, correction) ==
    the({ write_mut(once, pair[2], correct(get_mut(once, pair[2])[1], correction)) :
          once \in { write_mut(b, pair[1],
                               correct(get_mut(b, pair[1])[1], vec_neg(correction))) } })

\* The two pushes under `if iter == 0`: body1 gets the event naming body2,
\* body2 the one naming body1 with the normal negated.
record_contacts(b, pair, overlap) ==
    the({ write_mut(once, pair[2],
                    record_contact(get_mut(once, pair[2])[1],
                                   ContactEvent(pair[1], overlap.penetration,
                                                vec_neg(overlap.normal)))) :
          once \in { write_mut(b, pair[1],
                               record_contact(get_mut(b, pair[1])[1],
                                              ContactEvent(pair[2], overlap.penetration,
                                                           overlap.normal))) } })

\* Faulty `if penetration > 0.0` block: a contact is recorded in every pass.
resolve_recording_every_pass(b, pass, pair, overlap) ==
    the({ record_contacts(corrected, pair, overlap) :
          corrected \in { apply_correction(b, pair,
                                           scale(overlap.penetration \div 2,
                                                 overlap.normal)) } })

\* The block under `if penetration > 0.0`, in pass `iter`: both bodies are
\* corrected by penetration * 0.5 * normal, and in pass 0 the contact is
\* recorded.
resolve(b, pass, pair, overlap) ==
    the({ IF pass = 0 THEN record_contacts(corrected, pair, overlap) ELSE corrected :
          corrected \in { apply_correction(b, pair,
                                           scale(overlap.penetration \div 2,
                                                 overlap.normal)) } })

\* The body of the solver loop for one pair in pass `iter`.  s holds the bodies
\* and the log of the visits made so far: for each visit the pass, the pair,
\* the two positions get_overlap was given, what it returned, and whether
\* every value of the visit is on the grid of representable values.
visit(s, pass, pair) ==
    LET body1 == get(s.bodies, pair[1])[1]
        body2 == get(s.bodies, pair[2])[1]
    IN  the({ [bodies |-> IF overlap.penetration > 0
                          THEN resolve(s.bodies, pass, pair, overlap)
                          ELSE s.bodies,
               visits |-> Append(s.visits,
                                 [iter |-> pass, pair |-> pair,
                                  position1 |-> body1.position,
                                  position2 |-> body2.position,
                                  penetration |-> overlap.penetration,
                                  normal |-> overlap.normal,
                                  exact |-> /\ get_overlap_exact(body1.shape, body1.position,
                                                                 body2.shape, body2.position)
                                            /\ overlap.penetration % 2 = 0])] :
              overlap \in { get_overlap(body1.shape, body1.position,
                                        body2.shape, body2.position) } })

\* One pass of the solver over the pair list.
RECURSIVE solve_pass(_, _, _)
solve_pass(s, pass, pairs) ==
    IF pairs = << >>
    THEN s
    ELSE the({ solve_pass(visited, pass, Tail(pairs)) :
               visited \in { visit(s, pass, Head(pairs)) } })

\* Faulty iteration loop: it ends after the first pass that corrects nothing.
RECURSIVE solve_until_separated(_, _, _)
solve_until_separated(s, pass, pairs) ==
    IF pass >= NUM_SIMULATION_ITERATIONS
    THEN s
    ELSE the({ IF \A k \in (Len(s.visits) + 1)..Len(passed.visits) :
                      passed.visits[k].penetration = 0
               THEN passed
               ELSE solve_until_separated(passed, pass + 1, pairs) :
               passed \in { solve_pass(s, pass, pairs) } })

\* for iter in pass..NUM_SIMULATION_ITERATIONS
RECURSIVE solve(_, _, _)
solve(s, pass, pairs) ==
    IF pass >= NUM_SIMULATION_ITERATIONS
    THEN s
    ELSE the({ solve(passed, pass + 1, pairs) : passed \in { solve_pass(s, pass, pairs) } })

\* step_simulation from the solver loop on: the corrections, and the rebuild
\* of the grid that ends the step.
narrow_phase(integrated, collision_pairs) ==
    the({ [bodies |-> solved.bodies,
           grid |-> build_grid(solved.bodies),
           integrated |-> integrated,
           collision_pairs |-> collision_pairs,
           visits |-> solved.visits] :
          solved \in { solve([bodies |-> integrated, visits |-> << >>], 0, collision_pairs) } })

\* step_simulation from the first build_grid on: the candidate pairs are
\* computed once, from the integrated positions.
broad_phase(integrated) ==
    the({ narrow_phase(integrated, collision_pairs) :
          collision_pairs \in
              { the({ get_collision_pairs(integrated, g) : g \in { build_grid(integrated) } }) } })

\* PhysicsWorld::step_simulation, as the bodies and the grid afterwards,
\* together with what the step went through: the bodies after integration,
\* the candidate pair list, and the log of the solver's visits.
step_simulation(b, dt) ==
    the({ broad_phase(integrated) : integrated \in { integrate_all(b, iter_mut(b), dt) } })

\* Whether every value of a step of b by dt that logged visits is on the grid
\* of representable values.
step_exact(b, dt, visits) ==
    /\ \A k \in 1..Len(b.elements) :
           Len(b.elements[k]) = 1 => mul_dt_exact(b.elements[k][1].velocity, dt)
    /\ \A k \in 1..Len(visits) : visits[k].exact

\* Faulty inner loop of query_shape: ids are pushed without the contains test.
collect_all(result, cell_bodies) == result \o cell_bodies

\* The inner loop of query_shape over one cell's bodies.
RECURSIVE collect(_, _)
collect(result, cell_bodies) ==
    IF cell_bodies = << >>
    THEN result
    ELSE collect(IF contains(result, Head(cell_bodies))
                 THEN result
                 ELSE Append(result, Head(cell_bodies)),
                 Tail(cell_bodies))

\* The closure query_shape passes to for_grid_cells_in_aabb, run on each cell.
RECURSIVE query_cells(_, _, _)
query_cells(g, result, cells) ==
    IF cells = << >>
    THEN result
    ELSE query_cells(g,
                     IF Head(cells) \in DOMAIN g THEN collect(result, g[Head(cells)]) ELSE result,
                     Tail(cells))

\* PhysicsWorld::query_shape
query_shape(g, position, shape) ==
    LET extent == get_aabb(shape, position)
    IN  query_cells(g, << >>, for_grid_cells_in_aabb(extent[1], extent[2]))

\* ---------------------------------------------------------------- Pool<i32> under test
VARIABLES
    pool,          \* the Pool<i32>: [elements, generations, free_slots]
    last_call,     \* history: what the last call was and whether it found a value
    issued,        \* history: every PoolIndex push has returned
    removed,       \* history: every PoolIndex for which remove returned Some
    stored,        \* history: the live handles, each with the value last written through it
    net,           \* history: number of pushes minus number of removes that returned Some
    last_removed   \* history: slot index -> generation of the handle last removed from it

\* The PhysicsWorld.
VARIABLES
    bodies,        \* PhysicsWorld::bodies, a Pool<Body>
    grid,          \* PhysicsWorld::grid, cell (cx, cy) -> Vec<BodyId>
    world_call,    \* history: the last call made on the world
    expected       \* history: each BodyId issued, with the data last given for it

\* Calls of CollisionLayer::collides_with.
VARIABLES
    layer_ret,     \* the last call: [self, other, result]
    layer_prev     \* the call before it

\* Calls of PhysicsWorld::step_simulation.
VARIABLES
    tick,          \* history: the last step, [dt, before, integrated, collision_pairs, visits]
    ticks,         \* history: number of steps taken
    born,          \* history: each BodyId issued, with the number of steps taken before it
    pushed         \* history: the BodyIds a step has corrected

pool_vars == << pool, last_call, issued, removed, stored, net, last_removed >>
world_vars == << bodies, grid, world_call, expected >>
layer_vars == << layer_ret, layer_prev >>
step_vars == << tick, ticks, born, pushed >>

vars == << pool_vars, world_vars, layer_vars, step_vars >>

\* Every PoolIndex value of the model's widths.
AllHandles == [index : 0..MaxSlots, generation : 0..(GenMod - 1)]

\* A handle of a larger sibling pool (first use of its slot MaxSlots): the only
\* way a caller holds a PoolIndex this pool did not issue; its index is out of
\* range here in every state.
ForeignHandles == { PoolIndex(MaxSlots, 1) }

\* The handles a caller can pass: PoolIndex has private fields and no constructor.
HandleInputs == issued \cup ForeignHandles

\* History bookkeeping: value v is now the one written through handle h.
store(st, h, v) == { e \in st : e.handle # h } \cup { [handle |-> h, value |-> v] }

\* The value last written through h, as an Option (None when h is not live).
stored_value(st, h) ==
    IF \E e \in st : e.handle = h
    THEN Some((CHOOSE e \in st : e.handle = h).value)
    ELSE None

InitPool ==
    /\ pool = new
    /\ last_call = "new"
    /\ issued = {}
    /\ removed = {}
    /\ stored = {}
    /\ net = 0
    /\ last_removed = [i \in 0..(MaxSlots - 1) |-> -1]

\* pool.push(v); the model stops growing the pool at MaxSlots slots.
Push(v) ==
    /\ pool.free_slots # << >> \/ Len(pool.elements) < MaxSlots
    /\ LET r == push(pool, v)
       IN  /\ pool' = r.pool
           /\ issued' = issued \cup {r.handle}
           /\ stored' = store(stored, r.handle, v)
    /\ last_call' = IF pool.free_slots # << >> THEN "push_reuse" ELSE "push_append"
    /\ net' = net + 1
    /\ UNCHANGED << removed, last_removed >>

\* pool.remove(h)
Remove(h) ==
    LET r == remove(pool, h)
    IN  /\ pool' = r.pool
        /\ IF Len(r.out) = 1
           THEN /\ last_call' = "remove_some"
                /\ removed' = removed \cup {h}
                /\ stored' = { e \in stored : e.handle # h }
                /\ net' = net - 1
                /\ last_removed' = [last_removed EXCEPT ![h.index] = h.generation]
           ELSE /\ last_call' = IF h.index >= Len(pool.elements)
                                THEN "remove_out_of_range"
                                ELSE IF h \in removed THEN "remove_again" ELSE "remove_none"
                /\ UNCHANGED << removed, stored, net, last_removed >>
        /\ UNCHANGED issued

\* if let Some(x) = pool.get_mut(h) { *x = v }, the Some branch
GetMut(h, v) ==
    /\ Len(get_mut(pool, h)) = 1
    /\ pool' = write_mut(pool, h, v)
    /\ last_call' = "get_mut_some"
    /\ stored' = store(stored, h, v)
    /\ UNCHANGED << issued, removed, net, last_removed >>

\* if let Some(x) = pool.get_mut(h) { ... }, get_mut returning None: the body
\* does not run, whatever value it would have written.
GetMutNone(h) ==
    /\ Len(get_mut(pool, h)) # 1
    /\ pool' = write_mut(pool, h, 1)
    /\ last_call' = "get_mut_none"
    /\ UNCHANGED << issued, removed, stored, net, last_removed >>

\* The pool after `for (_h, v) in pool.iter_mut() { *v = f[*v] }`, items being
\* what iter_mut yields.
RECURSIVE apply_all(_, _, _)
apply_all(p, items, f) ==
    IF items = << >>
    THEN p
    ELSE apply_all([p EXCEPT !.elements[Head(items).handle.index + 1] = Some(f[Head(items).value])],
                   Tail(items), f)

RECURSIVE stored_all(_, _, _)
stored_all(st, items, f) ==
    IF items = << >>
    THEN st
    ELSE stored_all(store(st, Head(items).handle, f[Head(items).value]),
                    Tail(items), f)

\* The closures run over iter_mut: value v becomes v + d, wrapped into Values.
rotate(d) == [v \in Values |-> ((v + d - 1) % MaxValue) + 1]

\* for (_h, v) in pool.iter_mut() { *v = f[*v] }
IterMut(f) ==
    LET items == iter_mut(pool)
    IN  /\ pool' = apply_all(pool, items, f)
        /\ last_call' = "iter_mut"
        /\ stored' = stored_all(stored, items, f)
        /\ UNCHANGED << issued, removed, net, last_removed >>

PushStep == (\E v \in Values : Push(v)) /\ UNCHANGED << world_vars, layer_vars, step_vars >>
RemoveStep == (\E h \in HandleInputs : Remove(h)) /\ UNCHANGED << world_vars, layer_vars, step_vars >>
GetMutStep ==
    (\E h \in HandleInputs, v \in Values : GetMut(h, v)) /\ UNCHANGED << world_vars, layer_vars, step_vars >>
GetMutNoneStep ==
    (\E h \in HandleInputs : GetMutNone(h)) /\ UNCHANGED << world_vars, layer_vars, step_vars >>
IterMutStep == (\E d \in Values : IterMut(rotate(d))) /\ UNCHANGED << world_vars, layer_vars, step_vars >>

\* ---------------------------------------------------------------- the PhysicsWorld
\* The values the caller passes in BodySettings and to the setters.
Positions == { << 0, 0 >>, << 40, 0 >> }
Velocities == { << 0, 0 >>, << 60, 0 >> }
Shapes == { Circle(30), Circle(100) }
WorldLayers == { "Player", "PlayerProjectile" }

BodySettings ==
    [position : Positions, velocity : Velocities, layer : WorldLayers, shape : Shapes,
     listen_to_contact_events : BOOLEAN]

\* The BodyIds a caller can hold: those create_rigid_body returned, and one of
\* a larger sibling world, whose index is out of range here.
BodyIds == { e.id : e \in expected } \cup { PoolIndex(MaxBodies, 1) }

\* History bookkeeping: body is now the data given for id.
expect_set(ex, id, body) == { e \in ex : e.id # id } \cup { [id |-> id, body |-> body] }

\* History bookkeeping: the data last given for id.
expected_body(ex, id) == (CHOOSE e \in ex : e.id = id).body

InitWorld ==
    /\ bodies = new
    /\ grid = EmptyGrid
    /\ world_call = "new"
    /\ expected = {}

\* world.create_rigid_body(&settings); the model stops at MaxBodies bodies.
CreateRigidBody(settings) ==
    /\ Len(bodies.elements) < MaxBodies
    /\ LET r == create_rigid_body(bodies, settings)
       IN  /\ bodies' = r.pool
           /\ expected' = expect_set(expected, r.handle, Body(settings))
    /\ world_call' = "create"
    /\ UNCHANGED grid

\* History bookkeeping for a setter: field f of the data given for id is now v,
\* if id is one of the ids issued.
expect_after(id, f, v) ==
    IF \E e \in expected : e.id = id
    THEN expect_set(expected, id, [expected_body(expected, id) EXCEPT ![f] = v])
    ELSE expected

\* History bookkeeping: whether a setter called with id found a body.
set_call(id) == IF Len(get(bodies, id)) = 1 THEN "set" ELSE "set_unknown"

\* Faulty set_position: the grid is rebuilt at once for the new position.
SetPosition_rebuilding(id, position) ==
    /\ bodies' = set_position(bodies, id, position)
    /\ expected' = expect_after(id, "position", position)
    /\ world_call' = set_call(id)
    /\ grid' = build_grid(set_position(bodies, id, position))

\* world.set_position(id, position)
SetPosition(id, position) ==
    /\ bodies' = set_position(bodies, id, position)
    /\ expected' = expect_after(id, "position", position)
    /\ world_call' = set_call(id)
    /\ UNCHANGED grid

\* world.set_velocity(id, velocity)
SetVelocity(id, velocity) ==
    /\ bodies' = set_velocity(bodies, id, velocity)
    /\ expected' = expect_after(id, "velocity", velocity)
    /\ world_call' = set_call(id)
    /\ UNCHANGED grid

\* world.set_layer(id, layer)
SetLayer(id, layer) ==
    /\ bodies' = set_layer(bodies, id, layer)
    /\ expected' = expect_after(id, "layer", layer)
    /\ world_call' = set_call(id)
    /\ UNCHANGED grid

\* world.set_shape(id, shape)
SetShape(id, shape) ==
    /\ bodies' = set_shape(bodies, id, shape)
    /\ expected' = expect_after(id, "shape", shape)
    /\ world_call' = set_call(id)
    /\ UNCHANGED grid

CreateRigidBodyStep ==
    (\E settings \in BodySettings : CreateRigidBody(settings)) /\ UNCHANGED << pool_vars, layer_vars, step_vars >>
SetPositionStep ==
    (\E id \in BodyIds, position \in Positions : SetPosition(id, position))
        /\ UNCHANGED << pool_vars, layer_vars, step_vars >>
SetVelocityStep ==
    (\E id \in BodyIds, velocity \in Velocities : SetVelocity(id, velocity))
        /\ UNCHANGED << pool_vars, layer_vars, step_vars >>
SetLayerStep ==
    (\E id \in BodyIds, layer \in WorldLayers : SetLayer(id, layer))
        /\ UNCHANGED << pool_vars, layer_vars, step_vars >>
SetShapeStep ==
    (\E id \in BodyIds, shape \in Shapes : SetShape(id, shape))
        /\ UNCHANGED << pool_vars, layer_vars, step_vars >>

\* ---------------------------------------------------------------- collides_with calls
NoCall == [self |-> "none", other |-> "none", result |-> FALSE]

InitLayers ==
    /\ layer_ret = NoCall
    /\ layer_prev = NoCall

\* a.collides_with(b)
CollidesWith(a, b) ==
    /\ layer_ret' = [self |-> a, other |-> b, result |-> collides_with(a, b)]
    /\ layer_prev' = layer_ret

CollidesWithStep ==
    (\E a \in Layers, b \in Layers : CollidesWith(a, b)) /\ UNCHANGED << pool_vars, world_vars, step_vars >>

\* ---------------------------------------------------------------- stepping the world
\* The bodies a stepped world is given, positions and radii in world units:
\* two players 40 apart and a moving projectile of theirs, all across the
\* corner of cell (0, 0), and a row at y = 80 of a wall piece and two
\* enemies, the middle one moving to x = 40 in its first step.
preset(x, y, vx, layer, listen) ==
    [position |-> << fx(x), fx(y) >>, velocity |-> << fx(vx), 0 >>, layer |-> layer,
     shape |-> Circle(fx(30)), listen_to_contact_events |-> listen]

StepSettings ==
    { preset(0, 0, 0, "Player", TRUE),
      preset(40, 0, 0, "Player", TRUE),
      preset(0, 0, 60, "PlayerProjectile", TRUE),
      preset(104, 80, 0, "Environment", FALSE),
      preset(36, 80, 240, "Enemy", TRUE),
      preset(0, 80, 0, "Enemy", TRUE) }

\* The fixed timestep the caller passes, 1/60 s.
Dts == { [num |-> 1, den |-> 60] }

NoTick ==
    [dt |-> [num |-> 0, den |-> 1], before |-> new, integrated |-> new,
     collision_pairs |-> << >>, visits |-> << >>]

InitStep ==
    /\ tick = NoTick
    /\ ticks = 0
    /\ born = {}
    /\ pushed = {}

\* world.create_rigid_body(&settings) on the world that is stepped: as in
\* Game::new, the bodies are there before the first step, and the model stops
\* at MaxStepBodies of them.
CreateBody(settings) ==
    /\ ticks = 0
    /\ Len(bodies.elements) < MaxStepBodies
    /\ LET r == create_rigid_body(bodies, settings)
       IN  /\ bodies' = r.pool
           /\ expected' = expect_set(expected, r.handle, Body(settings))
           /\ born' = born \cup { [id |-> r.handle, tick |-> ticks] }
    /\ world_call' = "create"
    /\ UNCHANGED << grid, tick, ticks, pushed >>

\* The BodyIds of the visits that corrected a position.
corrected_ids(visits) ==
    UNION { { visits[k].pair[1], visits[k].pair[2] } :
            k \in { n \in 1..Len(visits) : visits[n].penetration > 0 } }

\* world.step_simulation(dt); the model takes the steps whose values are all
\* representable, MaxSteps of them.
StepSimulation(dt) ==
    /\ ticks < MaxSteps
    /\ \E r \in { step_simulation(bodies, dt) } :
           /\ step_exact(bodies, dt, r.visits)
           /\ bodies' = r.bodies
           /\ grid' = r.grid
           /\ tick' = [dt |-> dt, before |-> bodies, integrated |-> r.integrated,
                       collision_pairs |-> r.collision_pairs, visits |-> r.visits]
           /\ pushed' = pushed \cup corrected_ids(r.visits)
    /\ ticks' = ticks + 1
    /\ world_call' = "step"
    /\ UNCHANGED << expected, born >>

CreateBodyStep ==
    (\E settings \in StepSettings : CreateBody(settings)) /\ UNCHANGED << pool_vars, layer_vars >>
StepSimulationStep ==
    (\E dt \in Dts : StepSimulation(dt)) /\ UNCHANGED << pool_vars, layer_vars >>

\* ---------------------------------------------------------------- editing a stepped world
\* What the caller of a world that is being stepped creates and sets between
\* steps: players at the origin, across four cells, a move out of the cells
\* of negative index, a resize to a circle wider than a cell.
EditSettings == { preset(0, 0, 0, "Player", TRUE) }
EditPositions == { << fx(40), 0 >> }
EditShapes == { Circle(fx(88)) }

\* The BodyIds create_rigid_body has returned.
IssuedBodyIds == { e.id : e \in expected }

SpawnBodyStep ==
    (\E settings \in EditSettings : CreateRigidBody(settings))
        /\ UNCHANGED << pool_vars, layer_vars, step_vars >>
MoveBodyStep ==
    (\E id \in IssuedBodyIds, position \in EditPositions : SetPosition(id, position))
        /\ UNCHANGED << pool_vars, layer_vars, step_vars >>
ResizeBodyStep ==
    (\E id \in IssuedBodyIds, shape \in EditShapes : SetShape(id, shape))
        /\ UNCHANGED << pool_vars, layer_vars, step_vars >>

Init == InitPool /\ InitWorld /\ InitLayers /\ InitStep

Next ==
    \/ PushStep
    \/ RemoveStep
    \/ GetMutStep
    \/ GetMutNoneStep
    \/ IterMutStep

Spec == Init /\ [][Next]_vars

WorldNext ==
    \/ CreateRigidBodyStep
    \/ SetPositionStep
    \/ SetVelocityStep
    \/ SetLayerStep
    \/ SetShapeStep

WorldSpec == Init /\ [][WorldNext]_vars

LayerNext == CollidesWithStep

LayerSpec == Init /\ [][LayerNext]_vars

StepNext ==
    \/ CreateBodyStep
    \/ StepSimulationStep

StepSpec == Init /\ [][StepNext]_vars

EditNext ==
    \/ SpawnBodyStep
    \/ MoveBodyStep
    \/ ResizeBodyStep
    \/ StepSimulationStep

EditSpec == Init /\ [][EditNext]_vars

\* ---------------------------------------------------------------- claims on the pool

\* A handle that get/get_mut/remove must reject: index out of range or generation mismatch.
Stale(p, h) ==
    \/ h.index >= Len(p.elements)
    \/ p.generations[h.index + 1] # h.generation

Live(p, h) == Len(get(p, h)) = 1

\* C1: once remove(h) has returned Some, get(h) and get_mut(h) return None in
\* every later state, whatever pushes and removes follow (the claim as stated,
\* for runs of any length).
C1_StaleHandleStaysDead ==
    \A h \in removed : get(pool, h) = None /\ get_mut(pool, h) = None

\* C2: a push reuses a freed slot whenever the free list is non-empty, with a
\* generation different from that of the handle last removed from the slot,
\* and appends a new slot with generation 1 only when no slot is free; in both
\* cases get(returned handle) yields the pushed value right away.
C2_PushSlotChoice ==
    \A v \in Values :
        (pool.free_slots # << >> \/ Len(pool.elements) < MaxSlots) =>
            LET r == push(pool, v)
                h == r.handle
            IN  /\ IF pool.free_slots # << >>
                   THEN /\ \E k \in 1..Len(pool.free_slots) : pool.free_slots[k] = h.index
                        /\ pool.elements[h.index + 1] = None
                        /\ Len(r.pool.elements) = Len(pool.elements)
                        /\ last_removed[h.index] # -1
                        /\ h.generation # last_removed[h.index]
                   ELSE /\ h.index = Len(pool.elements)
                        /\ h.generation = 1
                        /\ Len(r.pool.elements) = Len(pool.elements) + 1
                /\ get(r.pool, h) = Some(v)
                /\ get_mut(r.pool, h) = Some(v)

\* C2 witness: the last call was a push that reused a freed slot, and the
\* slot's handle has a generation other than the one last removed from it.
C2_Witness ==
    /\ last_call = "push_reuse"
    /\ \E e \in stored : /\ last_removed[e.handle.index] # -1
                         /\ e.handle.generation # last_removed[e.handle.index]
                         /\ get(pool, e.handle) = Some(e.value)

\* C3: remove(h) of a live handle returns exactly the value stored in h's slot
\* (the pushed value as last modified through get_mut), and every other live
\* handle keeps dereferencing to its own unchanged value.
C3_RemoveRoundTrip ==
    \A h \in HandleInputs :
        Live(pool, h) =>
            LET r == remove(pool, h)
            IN  /\ r.out = pool.elements[h.index + 1]
                /\ r.out = stored_value(stored, h)
                /\ Len(r.out) = 1
                /\ \A h2 \in HandleInputs \ {h} :
                      Live(pool, h2) => /\ get(r.pool, h2) = get(pool, h2)
                                        /\ get(r.pool, h2) = stored_value(stored, h2)

\* C3 witness: a remove has just returned a value while another handle is live.
C3_Witness ==
    /\ last_call = "remove_some"
    /\ \E h2 \in issued : Live(pool, h2)

\* C4: for a stale or out-of-range handle get, get_mut and remove return None
\* (no panic), and remove leaves elements, generations, the free list and
\* len() unchanged.
C4_StaleIsNoneAndNoOp ==
    \A h \in HandleInputs :
        Stale(pool, h) =>
            LET r == remove(pool, h)
            IN  /\ get(pool, h) = None
                /\ get_mut(pool, h) = None
                /\ r.out = None
                /\ r.pool.elements = pool.elements
                /\ r.pool.generations = pool.generations
                /\ r.pool.free_slots = pool.free_slots
                /\ len(r.pool) = len(pool)

\* C4 witness: a second remove of an already removed handle has returned None
\* while its slot holds a later value.
C4_Witness ==
    /\ last_call = "remove_again"
    /\ \E h \in removed : Stale(pool, h) /\ h.index < Len(pool.elements)
                           /\ pool.elements[h.index + 1] # None

\* C5: len() equals the number of occupied slots, which is the number of
\* pushes minus the number of removes that returned Some.
C5_LenCountsOccupied ==
    /\ len(pool) = Cardinality({ i \in 1..Len(pool.elements) : pool.elements[i] # None })
    /\ len(pool) = net

\* C5 witness: after a stale remove returned None, some slots are occupied
\* and some are free.
C5_Witness ==
    /\ last_call \in { "remove_again", "remove_none", "remove_out_of_range" }
    /\ removed # {}
    /\ len(pool) > 0
    /\ pool.free_slots # << >>

\* C6: iter() and iter_mut() yield exactly the live values, each once, none of
\* the removed ones, in ascending slot order, each with a handle h for which
\* get(h) is that value.
C6_IterIsLiveSet ==
    LET it == iter(pool)
    IN  /\ iter_mut(pool) = it
        /\ \A k \in 1..Len(it) : get(pool, it[k].handle) = Some(it[k].value)
        /\ \A k, l \in 1..Len(it) : k < l => it[k].handle.index < it[l].handle.index
        /\ { it[k].handle : k \in 1..Len(it) } = { e.handle : e \in stored }
        /\ \A k \in 1..Len(it) : stored_value(stored, it[k].handle) = Some(it[k].value)
        /\ Len(it) = net

\* C6 witness: iter_mut has just run over a pool with a live value behind an
\* emptied slot.
C6_Witness ==
    /\ last_call = "iter_mut"
    /\ removed # {}
    /\ Len(iter(pool)) >= 1
    /\ \E i, j \in 1..Len(pool.elements) : i < j /\ pool.elements[i] = None /\ pool.elements[j] # None

\* ---------------------------------------------------------------- claims on the world

\* C8: create_rigid_body returns a BodyId for which get_state, get_layer and
\* get_shape return the settings' data and get_contacts returns Some(empty)
\* when listening and None when not, and the ids created before keep
\* returning their own unchanged data.
C8_CreateReturnsSettings ==
    \A settings \in BodySettings :
        Len(bodies.elements) < MaxBodies =>
            LET r == create_rigid_body(bodies, settings)
                id == r.handle
            IN  /\ id \notin { e.id : e \in expected }
                /\ get_state(r.pool, id) =
                      Some([position |-> settings.position, velocity |-> settings.velocity])
                /\ get_layer(r.pool, id) = Some(settings.layer)
                /\ get_shape(r.pool, id) = Some(settings.shape)
                /\ get_contacts(r.pool, id) =
                      IF settings.listen_to_contact_events THEN Some(<< >>) ELSE None
                /\ \A e \in expected :
                      /\ get_state(r.pool, e.id) = get_state(bodies, e.id)
                      /\ get_state(r.pool, e.id) =
                            Some([position |-> e.body.position, velocity |-> e.body.velocity])
                      /\ get_layer(r.pool, e.id) = Some(e.body.layer)
                      /\ get_shape(r.pool, e.id) = Some(e.body.shape)
                      /\ get_contacts(r.pool, e.id) = e.body.contacts

\* C8 witness: a body has just been created next to an earlier one, one of the
\* two listening to contacts and the other not.
C8_Witness ==
    /\ world_call = "create"
    /\ \E e1, e2 \in expected :
          /\ e1.id.index < e2.id.index
          /\ get_contacts(bodies, e1.id) = Some(<< >>)
          /\ get_contacts(bodies, e2.id) = None
          /\ get_state(bodies, e1.id) # get_state(bodies, e2.id)

\* ---------------------------------------------------------------- claims on the layers

\* The pairs the exception table names, in either order.
OwnProjectile(a, b) ==
    \/ {a, b} = { "Player", "PlayerProjectile" }
    \/ {a, b} = { "Enemy", "EnemyProjectile" }

\* C9: collides_with(a, b) = collides_with(b, a) for all 25 ordered pairs of
\* layers, and two recorded calls with swapped arguments returned the same.
C9_LayerSymmetry ==
    /\ \A a \in Layers, b \in Layers : collides_with(a, b) = collides_with(b, a)
    /\ (layer_ret # NoCall /\ layer_prev.self = layer_ret.other /\ layer_prev.other = layer_ret.self)
          => layer_prev.result = layer_ret.result

\* C9 witness: a non-colliding pair of distinct layers has been asked in both orders.
C9_Witness ==
    /\ layer_ret.self # layer_ret.other
    /\ layer_prev.self = layer_ret.other
    /\ layer_prev.other = layer_ret.self
    /\ ~layer_ret.result
    /\ ~layer_prev.result

\* C10: collides_with is false exactly for Player with PlayerProjectile and
\* Enemy with EnemyProjectile, in either order, and true for every other pair,
\* a layer with itself included.
C10_LayerTable ==
    /\ \A a \in Layers, b \in Layers : collides_with(a, b) = ~OwnProjectile(a, b)
    /\ Cardinality({ p \in Layers \X Layers : ~collides_with(p[1], p[2]) }) = 4
    /\ layer_ret # NoCall => layer_ret.result = ~OwnProjectile(layer_ret.self, layer_ret.other)

\* C10 witness: Enemy's own projectile was answered false right after
\* Player against the enemy's projectile was answered true.
C10_Witness ==
    /\ layer_ret = [self |-> "EnemyProjectile", other |-> "Enemy", result |-> FALSE]
    /\ layer_prev = [self |-> "Player", other |-> "EnemyProjectile", result |-> TRUE]

\* ---------------------------------------------------------------- claims on the narrow phase
\* The live bodies of b, as [handle, value] records.
live_bodies(b) == { iter(b)[k] : k \in 1..Len(iter(b)) }

\* C11: for two circles of radii r1, r2 with centres at distance d >= 0, d = 0
\* included, get_overlap reports a positive penetration iff d < r1 + r2, that
\* penetration is r1 + r2 - d, and it reports (0, ZERO) iff d >= r1 + r2.
\* Stated on every two bodies of the world, with d compared through its
\* square and taken as the root where the square has one.
C11_CircleOverlap ==
    \A one \in live_bodies(bodies), two \in live_bodies(bodies) :
        one.handle # two.handle =>
            LET min_distance == one.value.shape.radius + two.value.shape.radius
                d2 == distance_squared(one.value.position, two.value.position)
                overlap == get_overlap(one.value.shape, one.value.position,
                                       two.value.shape, two.value.position)
            IN  /\ overlap.penetration > 0 <=> d2 < min_distance * min_distance
                /\ \A d \in { sqrt(d2) } :
                       (d * d = d2 /\ d2 < min_distance * min_distance) =>
                           overlap.penetration = min_distance - d
                /\ overlap = [penetration |-> 0, normal |-> ZERO]
                       <=> d2 >= min_distance * min_distance

\* ---------------------------------------------------------------- claims on the grid
\* The cells around the origin, where every body of the model lies.
NearCells == { << cx, cy >> : cx \in -2..2, cy \in -2..2 }

\* Whether the world AABB (position +/- radius) of body touches cell:
\* floor(min / 160) <= c <= floor(max / 160) on both axes, written without a
\* division.
touches(position, shape, cell) ==
    LET side == GRID_CELL_SIZE * Fixed
    IN  /\ position[1] - shape.radius < (cell[1] + 1) * side
        /\ cell[1] * side <= position[1] + shape.radius
        /\ position[2] - shape.radius < (cell[2] + 1) * side
        /\ cell[2] * side <= position[2] + shape.radius

\* The grids to look at in a state: the one a rebuild would produce now, and
\* the one the step that just ended has left.
rebuilt_grids == { build_grid(bodies) } \cup (IF world_call = "step" THEN { grid } ELSE {})

occurrences(pairs, a, b) ==
    Cardinality({ k \in 1..Len(pairs) : { pairs[k][1], pairs[k][2] } = { a, b } })

\* Whether some cell of g lists both a and b.
share_cell(g, a, b) == \E cell \in DOMAIN g : contains(g[cell], a) /\ contains(g[cell], b)

\* C13: get_collision_pairs emits each unordered pair of layer-compatible
\* bodies that share at least one cell exactly once, however many cells the
\* two share (three such bodies give exactly three pairs), and emits nothing
\* else.
C13_PairDedup ==
    LET g == build_grid(bodies)
        pairs == get_collision_pairs(bodies, g)
    IN  \A one \in live_bodies(bodies), two \in live_bodies(bodies) :
            one.handle # two.handle =>
                occurrences(pairs, one.handle, two.handle)
                    = IF /\ collides_with(one.value.layer, two.value.layer)
                         /\ share_cell(g, one.handle, two.handle)
                      THEN 1
                      ELSE 0

\* The body behind a BodyId of b that is known to be live.
body_of(b, id) == get(b, id)[1]

\* Whether position is what integration makes of body: its position plus
\* velocity * dt, written without a division.
advanced(body, dt, position) ==
    /\ dt.den * (position[1] - body.position[1]) = dt.num * body.velocity[1]
    /\ dt.den * (position[2] - body.position[2]) = dt.num * body.velocity[2]

\* C14: two bodies whose layers do not collide are never together in the
\* result of get_collision_pairs; after a step of a world that holds just two
\* such bodies, each is where velocity * dt alone takes it and neither has
\* recorded a contact, even if the two overlap completely.
C14_LayerFilter ==
    /\ \A pairs \in { get_collision_pairs(bodies, build_grid(bodies)), tick.collision_pairs } :
           \A k \in 1..Len(pairs) :
               collides_with(body_of(bodies, pairs[k][1]).layer,
                             body_of(bodies, pairs[k][2]).layer)
    /\ world_call = "step" =>
           \A one \in live_bodies(tick.before), two \in live_bodies(tick.before) :
               (/\ one.handle # two.handle
                /\ Cardinality(live_bodies(tick.before)) = 2
                /\ ~collides_with(one.value.layer, two.value.layer)) =>
                   /\ advanced(one.value, tick.dt, body_of(bodies, one.handle).position)
                   /\ get_contacts(bodies, one.handle) \in { None, Some(<< >>) }

\* A step has ended on a Player and a PlayerProjectile that started it at the
\* same position and still overlap.
C14_Witness ==
    /\ world_call = "step"
    /\ Cardinality(live_bodies(tick.before)) = 2
    /\ \E one \in live_bodies(tick.before), two \in live_bodies(tick.before) :
           /\ one.value.layer = "Player"
           /\ two.value.layer = "PlayerProjectile"
           /\ one.value.position = two.value.position
           /\ distance_squared(body_of(bodies, one.handle).position,
                               body_of(bodies, two.handle).position)
                  < (one.value.shape.radius + two.value.shape.radius)
                        * (one.value.shape.radius + two.value.shape.radius)

\* ---------------------------------------------------------------- claims on contact events
\* The buffer get_contacts hands out for id, empty for a body without one.
buffer(b, id) == IF Len(get_contacts(b, id)) = 1 THEN get_contacts(b, id)[1] ELSE << >>

\* The events of id's buffer that name other, in order.
events_with(b, id, other) == SelectSeq(buffer(b, id), LAMBDA e : e.other = other)

\* Whether the body behind id listens to contact events.
listening(b, id) == Len(get_contacts(b, id)) = 1

\* The visits of the last step that found a positive penetration in pass 0.
first_pass_hits ==
    { k \in 1..Len(tick.visits) : tick.visits[k].iter = 0 /\ tick.visits[k].penetration > 0 }

\* C15: when a step records a contact for a pair (A, B) of listening bodies, A
\* gets an event naming B and B one naming A, with the same penetration and
\* exactly negated normals, A's normal being the unit vector from A toward B
\* at that moment; a participant that does not listen records nothing, and
\* its listening partner records all the same.
C15_ContactMirroring ==
    /\ \A one \in live_bodies(bodies), two \in live_bodies(bodies) :
           (one.handle # two.handle /\ listening(bodies, one.handle)
                                    /\ listening(bodies, two.handle)) =>
               LET mine == events_with(bodies, one.handle, two.handle)
                   theirs == events_with(bodies, two.handle, one.handle)
               IN  /\ Len(mine) = Len(theirs)
                   /\ \A k \in 1..Len(mine) :
                          /\ mine[k].penetration = theirs[k].penetration
                          /\ mine[k].normal[1] + theirs[k].normal[1] = 0
                          /\ mine[k].normal[2] + theirs[k].normal[2] = 0
    /\ \A k \in first_pass_hits :
           LET v == tick.visits[k]
               toward == vec_sub(v.position2, v.position1)
               recorded(id, other, normal) ==
                   IF listening(bodies, id)
                   THEN \E e \in { buffer(bodies, id)[n] : n \in 1..Len(buffer(bodies, id)) } :
                            e = [other |-> other, penetration |-> v.penetration,
                                 normal |-> normal]
                   ELSE get_contacts(bodies, id) = None
           IN  /\ v.normal[1] * v.normal[1] + v.normal[2] * v.normal[2] = 1
               /\ v.normal[1] * toward[1] + v.normal[2] * toward[2] > 0
               /\ v.normal[1] * toward[2] - v.normal[2] * toward[1] = 0
               /\ recorded(v.pair[1], v.pair[2], v.normal)
               /\ recorded(v.pair[2], v.pair[1], << -v.normal[1], -v.normal[2] >>)

\* A step has ended in which two listening bodies recorded each other and a
\* listening body recorded a body that does not listen.
C15_Witness ==
    /\ world_call = "step"
    /\ \E one \in live_bodies(bodies), two \in live_bodies(bodies) :
           /\ listening(bodies, two.handle)
           /\ Len(events_with(bodies, one.handle, two.handle)) > 0
           /\ Len(events_with(bodies, two.handle, one.handle)) > 0
    /\ \E one \in live_bodies(bodies), two \in live_bodies(bodies) :
           /\ ~listening(bodies, two.handle)
           /\ Len(events_with(bodies, one.handle, two.handle)) > 0

\* ---------------------------------------------------------------- the two-circle scenario
\* Whether item is a resting, listening Player circle of radius 30 at (x, 0).
resting_player(item, x) ==
    /\ item.value.position = << fx(x), 0 >>
    /\ item.value.velocity = ZERO
    /\ item.value.layer = "Player"
    /\ item.value.shape = Circle(fx(30))
    /\ item.value.contacts = Some(<< >>)

\* C16: two Player circles of radius 30 at (0, 0) and (40, 0), at rest and
\* listening, are after one step at (-10, 0) and (50, 0), and each buffer
\* holds exactly one event, of penetration 20, with normal (+1, 0) for the
\* body that started at the origin and (-1, 0) for the other.
C16_TwoCircles ==
    world_call = "step" =>
        \A left \in live_bodies(tick.before), right \in live_bodies(tick.before) :
            (/\ Cardinality(live_bodies(tick.before)) = 2
             /\ resting_player(left, 0)
             /\ resting_player(right, 40)) =>
                /\ body_of(bodies, left.handle).position = << fx(-10), 0 >>
                /\ body_of(bodies, right.handle).position = << fx(50), 0 >>
                /\ get_contacts(bodies, left.handle)
                       = Some(<< [other |-> right.handle, penetration |-> fx(20),
                                  normal |-> << 1, 0 >>] >>)
                /\ get_contacts(bodies, right.handle)
                       = Some(<< [other |-> left.handle, penetration |-> fx(20),
                                  normal |-> << -1, 0 >>] >>)

\* That step has been taken, on a pair list that held the pair twice.
C16_Witness ==
    /\ world_call = "step"
    /\ Cardinality(live_bodies(tick.before)) = 2
    /\ \E left \in live_bodies(tick.before), right \in live_bodies(tick.before) :
           /\ resting_player(left, 0)
           /\ resting_player(right, 40)
           /\ occurrences(tick.collision_pairs, left.handle, right.handle) = 2

\* ---------------------------------------------------------------- claims on query_shape
\* The queries a caller makes: a point-like probe and a wide one, at the
\* origin, inside cells (-1, -1), (0, 0) and (1, 1).
QueryPositions ==
    { << fx(0), fx(0) >>, << fx(-100), fx(-100) >>, << fx(120), fx(80) >>, << fx(200), fx(200) >> }
QueryShapes == { Circle(fx(1)), Circle(fx(100)) }

\* The set of the elements of a sequence.
Range(seq) == { seq[k] : k \in 1..Len(seq) }

\* C17: right after step_simulation, query_shape(p, s) returns, each id at
\* most once, exactly the live bodies whose AABB at their final position
\* touches at least one grid cell that the AABB of s at p touches; so it never
\* misses a body whose AABB intersects the query's, and finds a body that
\* spans several cells through any one of them.
C17_QueryAfterStep ==
    world_call = "step" =>
        \A position \in QueryPositions, shape \in QueryShapes :
            LET result == query_shape(grid, position, shape)
            IN  /\ \A j, k \in 1..Len(result) : result[j] = result[k] => j = k
                /\ Range(result)
                       = { item.handle : item \in
                             { it \in live_bodies(bodies) :
                                 \E cell \in NearCells :
                                     /\ touches(position, shape, cell)
                                     /\ touches(it.value.position, it.value.shape, cell) } }

\* A step has ended and a probe inside cell (-1, -1) finds a body centred in
\* another cell, while the wide query at the origin finds bodies registered
\* in several of its cells.
C17_Witness ==
    /\ world_call = "step"
    /\ \E id \in Range(query_shape(grid, << fx(-100), fx(-100) >>, Circle(fx(1)))) :
           body_of(bodies, id).position[1] >= 0
    /\ Len(query_shape(grid, << fx(0), fx(0) >>, Circle(fx(100)))) >= 2

\* ---------------------------------------------------------------- claims on integration
\* The number of steps taken since id was created.
steps_since_birth(id) == ticks - (CHOOSE e \in born : e.id = id).tick

\* C18: a step first advances every live body by velocity * dt; a body that
\* is in no candidate pair with positive penetration ends the step at exactly
\* position + velocity * dt, and n steps in a row with the same dt move such a
\* body by n * velocity * dt.
C18_Integration ==
    /\ world_call = "step" =>
           \A item \in live_bodies(tick.before) :
               /\ advanced(item.value, tick.dt, body_of(tick.integrated, item.handle).position)
               /\ item.handle \notin corrected_ids(tick.visits) =>
                      advanced(item.value, tick.dt, body_of(bodies, item.handle).position)
    /\ \A item \in live_bodies(bodies), dt \in Dts :
           item.handle \notin pushed =>
               LET given == expected_body(expected, item.handle)
                   n == steps_since_birth(item.handle)
               IN  /\ dt.den * (item.value.position[1] - given.position[1])
                          = n * dt.num * given.velocity[1]
                   /\ dt.den * (item.value.position[2] - given.position[2])
                          = n * dt.num * given.velocity[2]

\* Two steps have been taken on a world in which a moving body was a
\* candidate for collision in the last step and was never corrected.
C18_Witness ==
    /\ ticks = 2
    /\ \E item \in live_bodies(bodies) :
           /\ item.value.velocity # ZERO
           /\ item.handle \notin pushed
           /\ \E k \in 1..Len(tick.collision_pairs) :
                  item.handle \in { tick.collision_pairs[k][1], tick.collision_pairs[k][2] }

\* ---------------------------------------------------------------- claims on the contact buffers
\* The events the pass-0 hits of the last step gave id, in visit order.
RECURSIVE events_of_tick(_, _)
events_of_tick(id, k) ==
    IF k > Len(tick.visits)
    THEN << >>
    ELSE LET v == tick.visits[k]
         IN  (IF k \notin first_pass_hits
              THEN << >>
              ELSE IF v.pair[1] = id
              THEN << [other |-> v.pair[2], penetration |-> v.penetration, normal |-> v.normal] >>
              ELSE IF v.pair[2] = id
              THEN << [other |-> v.pair[1], penetration |-> v.penetration,
                       normal |-> << -v.normal[1], -v.normal[2] >>] >>
              ELSE << >>)
             \o events_of_tick(id, k + 1)

\* C19: every step empties each listening body's buffer before it records,
\* so get_contacts holds the events of the most recent step only, Some(empty)
\* for a listening body that overlapped nothing in it; for a body that does
\* not listen get_contacts is None in every state.
C19_BuffersPerTick ==
    /\ \A item \in live_bodies(tick.integrated) :
           body_of(tick.integrated, item.handle).contacts \in { None, Some(<< >>) }
    /\ \A item \in live_bodies(bodies) :
           get_contacts(bodies, item.handle)
               = IF ~expected_body(expected, item.handle).contacts = None
                 THEN IF item.handle \in { e.handle : e \in live_bodies(tick.before) }
                      THEN Some(events_of_tick(item.handle, 1))
                      ELSE Some(<< >>)
                 ELSE None

\* A second step has ended: a body that entered it with an event in its
\* buffer has left it with an empty one, next to a body that does not listen.
C19_Witness ==
    /\ ticks = 2
    /\ \E item \in live_bodies(tick.before) :
           /\ Len(buffer(tick.before, item.handle)) > 0
           /\ get_contacts(bodies, item.handle) = Some(<< >>)
    /\ \E item \in live_bodies(bodies) : get_contacts(bodies, item.handle) = None

\* The visits of the last step that found a positive penetration after pass 0.
later_hits ==
    { k \in 1..Len(tick.visits) : tick.visits[k].iter >= 1 /\ tick.visits[k].penetration > 0 }

\* Where id is once visit k of the last step is over: at the position the next
\* visit that involves it starts from, or where the step has left it.
position_after(k, id) ==
    LET later == { j \in (k + 1)..Len(tick.visits) :
                     id \in { tick.visits[j].pair[1], tick.visits[j].pair[2] } }
    IN  IF later = {}
        THEN body_of(bodies, id).position
        ELSE LET j == CHOOSE n \in later : \A o \in later : n <= o
             IN  IF tick.visits[j].pair[1] = id
                 THEN tick.visits[j].position1
                 ELSE tick.visits[j].position2

\* C20: a ContactEvent is appended for a candidate pair iff its penetration
\* is > 0 at the moment the pair is visited in pass 0: a listening body holds,
\* about each other body, as many events as pass 0 had hits on the two; a pair
\* that overlaps only from pass 1 on is corrected and records nothing, and a
\* visit with penetration 0 records nothing.
C20_ContactsOnFirstPass ==
    world_call = "step" =>
        /\ \A one \in live_bodies(bodies), two \in live_bodies(bodies) :
               (one.handle # two.handle /\ listening(bodies, one.handle)) =>
                   Len(events_with(bodies, one.handle, two.handle))
                       = Cardinality({ k \in first_pass_hits :
                                         { tick.visits[k].pair[1], tick.visits[k].pair[2] }
                                             = { one.handle, two.handle } })
        /\ \A k \in later_hits :
               LET v == tick.visits[k]
               IN  /\ 2 * (position_after(k, v.pair[1])[1] - v.position1[1])
                          = -v.penetration * v.normal[1]
                   /\ 2 * (position_after(k, v.pair[2])[1] - v.position2[1])
                          = v.penetration * v.normal[1]
                   /\ 2 * (position_after(k, v.pair[1])[2] - v.position1[2])
                          = -v.penetration * v.normal[2]
                   /\ 2 * (position_after(k, v.pair[2])[2] - v.position2[2])
                          = v.penetration * v.normal[2]

\* A step has ended in which two listening bodies did not overlap in pass 0,
\* were pushed into each other, were corrected in a later pass, and hold no
\* event about each other.
C20_Witness ==
    /\ world_call = "step"
    /\ \E k \in later_hits :
           LET v == tick.visits[k]
           IN  /\ \A j \in first_pass_hits : tick.visits[j].pair # v.pair
               /\ listening(bodies, v.pair[1])
               /\ listening(bodies, v.pair[2])
               /\ events_with(bodies, v.pair[1], v.pair[2]) = << >>
               /\ events_with(bodies, v.pair[2], v.pair[1]) = << >>

\* ---------------------------------------------------------------- claims on the solver
\* C21: the penetration and normal of every ContactEvent a step has recorded
\* are the overlap of the two bodies at their positions right after
\* integration, before the step has corrected either of them, also in a chain
\* of three or more overlapping bodies.
C21_PreResolutionContacts ==
    world_call = "step" =>
        \A item \in live_bodies(bodies) :
            \A e \in Range(buffer(bodies, item.handle)) :
                LET mine == body_of(tick.integrated, item.handle)
                    theirs == body_of(tick.integrated, e.other)
                    overlap == get_overlap(mine.shape, mine.position,
                                           theirs.shape, theirs.position)
                IN  /\ e.penetration = overlap.penetration
                    /\ e.normal = overlap.normal

\* The visits of the last step that found a positive penetration.
hits == { k \in 1..Len(tick.visits) : tick.visits[k].penetration > 0 }

\* C22: each visit of a candidate pair that finds penetration p > 0 and normal
\* n moves the first body by -p/2 * n and the second by +p/2 * n, whatever
\* their layers, and leaves their centres exactly r1 + r2 apart.
C22_SymmetricCorrection ==
    world_call = "step" =>
        \A k \in hits :
            LET v == tick.visits[k]
                after1 == position_after(k, v.pair[1])
                after2 == position_after(k, v.pair[2])
                min_distance == body_of(bodies, v.pair[1]).shape.radius
                                    + body_of(bodies, v.pair[2]).shape.radius
            IN  /\ 2 * (after1[1] - v.position1[1]) = -v.penetration * v.normal[1]
                /\ 2 * (after1[2] - v.position1[2]) = -v.penetration * v.normal[2]
                /\ 2 * (after2[1] - v.position2[1]) = v.penetration * v.normal[1]
                /\ 2 * (after2[2] - v.position2[2]) = v.penetration * v.normal[2]
                /\ distance_squared(after1, after2) = min_distance * min_distance

\* A step has ended in which an Environment body and an Enemy were pushed
\* apart, the Environment body having been moved.
C22_Witness ==
    /\ world_call = "step"
    /\ \E k \in hits, item \in live_bodies(tick.integrated) :
           /\ item.handle \in { tick.visits[k].pair[1], tick.visits[k].pair[2] }
           /\ item.value.layer = "Environment"
           /\ body_of(bodies, item.handle).position # item.value.position
           /\ { body_of(bodies, tick.visits[k].pair[1]).layer,
                body_of(bodies, tick.visits[k].pair[2]).layer } = { "Environment", "Enemy" }

\* C23: step_simulation completes on every world: it makes exactly
\* NUM_SIMULATION_ITERATIONS = 4 passes, each over the whole candidate list in
\* order, the list being the one computed from the grid of the integrated
\* positions; it neither stops when a pass finds no penetration nor goes on
\* when the last pass still finds some.
C23_FixedIterations ==
    \A dt \in Dts :
        \A r \in { step_simulation(bodies, dt) } :
            \A candidates \in { get_collision_pairs(r.integrated, build_grid(r.integrated)) } :
                /\ Len(r.visits) = 4 * Len(candidates)
                /\ \A k \in 1..Len(r.visits) :
                       /\ r.visits[k].iter = (k - 1) \div Len(candidates)
                       /\ r.visits[k].pair = candidates[((k - 1) % Len(candidates)) + 1]

\* A step has ended that visited its candidates in passes 1 to 3 without
\* finding a penetration in any of them.
C23_Witness ==
    /\ world_call = "step"
    /\ tick.collision_pairs # << >>
    /\ first_pass_hits # {}
    /\ later_hits = {}
    /\ \E k \in 1..Len(tick.visits) : tick.visits[k].iter = 3

\* ---------------------------------------------------------------- claims on the pool's bookkeeping
\* C24: in every reachable pool the free list holds exactly the indices of
\* the empty slots, each once; a slot is occupied iff its generation is odd,
\* also after the generation has wrapped; so no handle push has returned has
\* the generation of an empty slot, a remove of any handle leaves a free list
\* without repetitions, and len() is never negative.
C24_PoolOccupancy ==
    /\ Len(pool.generations) = Len(pool.elements)
    /\ \A k \in 1..Len(pool.free_slots) : pool.free_slots[k] \in 0..(Len(pool.elements) - 1)
    /\ \A i \in 0..(Len(pool.elements) - 1) :
           /\ Cardinality({ k \in 1..Len(pool.free_slots) : pool.free_slots[k] = i })
                  = IF pool.elements[i + 1] = None THEN 1 ELSE 0
           /\ pool.elements[i + 1] # None <=> pool.generations[i + 1] % 2 = 1
    /\ \A h \in issued :
           /\ h.generation % 2 = 1
           /\ pool.elements[h.index + 1] = None => pool.generations[h.index + 1] # h.generation
    /\ \A h \in HandleInputs :
           LET r == remove(pool, h)
           IN  /\ \A j, k \in 1..Len(r.pool.free_slots) :
                      r.pool.free_slots[j] = r.pool.free_slots[k] => j = k
               /\ len(r.pool) >= 0
    /\ len(pool) >= 0

\* Every slot is empty, one of them with a generation that has wrapped to 0,
\* and a remove of a handle already removed has just been refused.
C24_Witness ==
    /\ last_call = "remove_again"
    /\ Len(pool.free_slots) = MaxSlots
    /\ \E i \in 1..Len(pool.generations) : pool.generations[i] = 0

\* ---------------------------------------------------------------- claims on repeated contacts
\* The visits of pass 0, the only ones that write to a contact buffer.
first_pass(visits) == SelectSeq(visits, LAMBDA v : v.iter = 0)

\* C25: after any step a listening body's buffer holds at most one
\* ContactEvent for each other BodyId, also when the two share several cells
\* and other bodies overlap them.  Stated on the step of every reachable
\* world whose pass 0 is made of representable values.
C25_OneContactPerPartner ==
    \A dt \in Dts :
        \A r \in { step_simulation(bodies, dt) } :
            step_exact(bodies, dt, first_pass(r.visits)) =>
                \A one \in live_bodies(r.bodies), two \in live_bodies(r.bodies) :
                    Len(events_with(r.bodies, one.handle, two.handle)) <= 1

\* ---------------------------------------------------------------- claims on what a step changes
\* C28: a step changes positions, the contact buffers of listening bodies
\* and the grid, and nothing else: every body has the velocity, layer and
\* shape it had, listens iff it did, and the live BodyIds are the same.
C28_StepFrame ==
    world_call = "step" =>
        /\ { item.handle : item \in live_bodies(bodies) }
               = { item.handle : item \in live_bodies(tick.before) }
        /\ bodies.generations = tick.before.generations
        /\ bodies.free_slots = tick.before.free_slots
        /\ Len(bodies.elements) = Len(tick.before.elements)
        /\ \A item \in live_bodies(tick.before) :
               LET after == body_of(bodies, item.handle)
               IN  /\ after.velocity = item.value.velocity
                   /\ after.layer = item.value.layer
                   /\ after.shape = item.value.shape
                   /\ Len(after.contacts) = Len(item.value.contacts)

\* A step has ended that corrected a moving body and a body that does not
\* listen.
C28_Witness ==
    /\ world_call = "step"
    /\ \E item \in live_bodies(bodies) :
           item.value.velocity # ZERO /\ item.handle \in corrected_ids(tick.visits)
    /\ \E item \in live_bodies(bodies) :
           item.value.contacts = None /\ item.handle \in corrected_ids(tick.visits)

\* The sum of the positions of items, what iter yields.
RECURSIVE position_sum(_)
position_sum(items) ==
    IF items = << >>
    THEN ZERO
    ELSE vec_add(Head(items).value.position, position_sum(Tail(items)))

\* C30: within a step the four solver passes leave the sum of all body
\* positions as integration made it, for any number of bodies and any
\* pattern of overlaps.
C30_CentroidPreserved ==
    world_call = "step" => position_sum(iter(bodies)) = position_sum(iter(tick.integrated))

\* A step has ended on three bodies, of which it corrected every one, the
\* one in the middle from both sides.
C30_Witness ==
    /\ world_call = "step"
    /\ Cardinality(live_bodies(bodies)) = 3
    /\ \A item \in live_bodies(bodies) : item.handle \in corrected_ids(tick.visits)
    /\ \E item \in live_bodies(bodies) :
           \E j, k \in hits :
               /\ tick.visits[j].pair[1] = item.handle
               /\ tick.visits[k].pair[2] = item.handle

\* ---------------------------------------------------------------- claims on coincident centres
\* The pairs of distinct live bodies of b with colliding layers and the same
\* position.
coincident_pairs(b) ==
    { pair \in live_bodies(b) \X live_bodies(b) :
        /\ pair[1].handle # pair[2].handle
        /\ collides_with(pair[1].value.layer, pair[2].value.layer)
        /\ pair[1].value.position = pair[2].value.position }

overlapping(one, two) ==
    LET min_distance == one.shape.radius + two.shape.radius
        d2 == distance_squared(one.position, two.position)
    IN  0 < d2 /\ d2 < min_distance * min_distance

\* Whether pairs holds every pair of live bodies of b with colliding layers
\* and overlapping circles.
conservative(b, pairs) ==
    \A one \in live_bodies(b), two \in live_bodies(b) :
        (/\ one.handle # two.handle
         /\ collides_with(one.value.layer, two.value.layer)
         /\ overlapping(one.value, two.value)) =>
            occurrences(pairs, one.handle, two.handle) >= 1

reported(b, position, shape) ==
    { item.handle : item \in
        { it \in live_bodies(b) :
            \E cell \in NearCells :
                /\ touches(position, shape, cell)
                /\ touches(it.value.position, it.value.shape, cell) } }

\* The bodies as the last step left them; no bodies before the first step.
after_last_step == IF ticks = 0 THEN new ELSE step_simulation(tick.before, tick.dt).bodies

\* C27: query_shape reads the grid the last step_simulation has left and
\* nothing else: before the first step it returns an empty list even when
\* bodies exist, and a body created, moved or resized since the last step is
\* reported by its position and shape at the end of that step, or not at all
\* if it did not exist then, until the next step.
C27_QueryReadsLastGrid ==
    \A last \in { after_last_step } :
        \A position \in QueryPositions, shape \in QueryShapes :
            \A result \in { query_shape(grid, position, shape) } :
                /\ ticks = 0 => result = << >>
                /\ Range(result) = reported(last, position, shape)
                /\ \A j, k \in 1..Len(result) : result[j] = result[k] => j = k

\* After a step, a second body has been created and the first moved from
\* the origin to (40, 0): the probe in cell (-1, -1) still reports the first
\* body, which is no longer there, and no query reports the second.
C27_Witness ==
    /\ ticks >= 1
    /\ world_call = "set"
    /\ \E moved \in live_bodies(bodies), created \in live_bodies(bodies) :
           /\ Live(after_last_step, moved.handle)
           /\ ~Live(after_last_step, created.handle)
           /\ moved.value.position = << fx(40), 0 >>
           /\ moved.value.shape = Circle(fx(30))
           /\ moved.handle \in Range(query_shape(grid, << fx(-100), fx(-100) >>, Circle(fx(1))))
           /\ \A position \in QueryPositions, shape \in QueryShapes :
                  created.handle \notin Range(query_shape(grid, position, shape))

====
